---- MODULE Spec2Model ----
(***************************************************************************)
(* Model of the analytics aggregation and real-time synchronisation layer  *)
(* of the sports-management dashboard:                                     *)
(*   - fetchDashboardStats          (dashboard service, src/unnamed/part_000) *)
(*   - getAnalyticsData, getUserEngagementMetrics,                         *)
(*     getProgramPerformanceMetrics and the module-level subscription      *)
(*     registry                     (analytics service, src/unnamed/part_001) *)
(* The document store is external: a count query either fails or returns   *)
(* the number of matching documents.                                       *)
(***************************************************************************)
EXTENDS Integers, Sequences, FiniteSets, TLC

(***************************************************************************)
(* Bounds of the model.                                                    *)
(***************************************************************************)
\* documents held by the store, all collections together
MaxDocs == 2
\* store calls of one fetchDashboardStats run that fail
MaxFailures == 2
\* days of the userGrowth and taskCompletion series (30 in the code, line 166)
WindowDays == 1
\* subscribe calls made on the three metric families together, where the
\* registry is studied
MaxSubs == 2
\* subscribe calls made, where the recomputes are studied
MaxListeners == 1
\* recomputes one listener has in flight at a time
MaxInFlight == 1
\* changes made to the collections one metric family is computed from
MaxChanges == 1
\* days of the userGrowth series where its counts are computed (30 in the
\* code, line 166)
GrowthDays == 2
\* users in the collection the userGrowth series counts
MaxGrowthUsers == 2
\* documents in one collection fetchRecentActivity reads
MaxActivityDocs == 4
\* the latest date of a document fetchRecentActivity reads
MaxStamp == 5
\* calls of seedSampleData one browser session makes
MaxRuns == 1
\* the largest count a count query returns, where the percentages are studied
MaxCount == 3
\* athlete documents read by fetchLevelData
MaxAthletes == 5
\* athlete documents read by fetchRegionalData and fetchGrowthData, beyond
\* the ten regions of one athlete each that fill the top of the ranking
MaxExtraAthletes == 2
\* event documents read by fetchRegionalData and fetchGrowthData
MaxEventDocs == 1
\* the last calendar day of the ranges given to getDaysArray (the first is 0)
MaxDay == 2
\* instants told apart within one calendar day
TicksPerDay == 2
\* enrollment and completion documents read by getProgramPerformanceMetrics
MaxEnrollments == 3
MaxCompletions == 2

(***************************************************************************)
(* The document store as fetchDashboardStats sees it: the number of        *)
(* documents of each kind its queries tell apart.  Documents no query of   *)
(* fetchDashboardStats counts (a draft program that is no training         *)
(* program) are left out, they change no count.                            *)
(***************************************************************************)
Kinds ==
    { "userOld", "userRecent",
      "programActive", "programActiveTraining", "programTraining",
      "eventPast", "eventFuture",
      "taskOpen", "taskCompleted",
      "certificate", "admissionApplication", "blogPost",
      "athlete", "athleteScouted",
      "contactSubmission", "contact", "message" }

EmptyStore == [k \in Kinds |-> 0]

RECURSIVE StoresUpTo(_)
StoresUpTo(n) ==
    IF n = 0 THEN {EmptyStore}
    ELSE LET prev == StoresUpTo(n - 1)
         IN  prev \cup {[s EXCEPT ![k] = @ + 1] : s \in prev, k \in Kinds}

\* a store whose only documents are three messages in the first fallback
\* collection of the contact submissions chain
FallbackStore == [EmptyStore EXCEPT !["contact"] = 3]

Stores == StoresUpTo(MaxDocs) \cup {FallbackStore}

(***************************************************************************)
(* The store calls of fetchDashboardStats, one name per call site.         *)
(***************************************************************************)
\* the calls inside Promise.all, lines 69-81, each with its own .catch
BatchCalls ==
    { "users", "activePrograms", "events", "tasks", "certificates",
      "admissionApplications", "blogPosts", "athletes", "scoutedAthletes",
      "trainingPrograms", "recentUsers" }

\* the contact submissions chain, lines 83-86, in the order tried
ContactChain == <<"contactSubmissions", "contacts", "messages">>

ContactCalls == {ContactChain[i] : i \in 1..Len(ContactChain)}

\* the calls of the second phase, lines 89-145
SecondCalls ==
    { "completedTasks", "upcomingEvents", "totalEvents", "totalEventsRetry",
      "recentRegistrations", "activeTrainingPrograms" }

Calls == BatchCalls \cup ContactCalls \cup SecondCalls

\* what the store answers when the call succeeds
Count(s, q) ==
    CASE q = "users" -> s["userOld"] + s["userRecent"]
      [] q = "activePrograms" -> s["programActive"] + s["programActiveTraining"]
      [] q = "events" -> s["eventPast"] + s["eventFuture"]
      [] q = "tasks" -> s["taskOpen"] + s["taskCompleted"]
      [] q = "certificates" -> s["certificate"]
      [] q = "admissionApplications" -> s["admissionApplication"]
      [] q = "blogPosts" -> s["blogPost"]
      [] q = "athletes" -> s["athlete"] + s["athleteScouted"]
      [] q = "scoutedAthletes" -> s["athleteScouted"]
      [] q = "trainingPrograms" -> s["programTraining"] + s["programActiveTraining"]
      [] q = "recentUsers" -> s["userRecent"]
      [] q = "contactSubmissions" -> s["contactSubmission"]
      [] q = "contacts" -> s["contact"]
      [] q = "messages" -> s["message"]
      [] q = "completedTasks" -> s["taskCompleted"]
      [] q = "upcomingEvents" -> s["eventFuture"]
      [] q = "totalEvents" -> s["eventPast"] + s["eventFuture"]
      [] q = "totalEventsRetry" -> s["eventPast"] + s["eventFuture"]
      [] q = "recentRegistrations" -> s["userRecent"]
      [] q = "activeTrainingPrograms" -> s["programTraining"] + s["programActiveTraining"]

RECURSIVE SubsetsUpTo(_, _)
SubsetsUpTo(S, n) ==
    IF n = 0 THEN {{}}
    ELSE LET prev == SubsetsUpTo(S, n - 1)
         IN  prev \cup {F \cup {q} : F \in prev, q \in S}

\* the sets of calls that fail (if issued) in one run: up to MaxFailures calls,
\* or the whole contact chain (a store with none of its three collections)
FailSets == SubsetsUpTo(Calls, MaxFailures) \cup {ContactCalls}

StatFields ==
    { "totalUsers", "activePrograms", "upcomingEvents", "tasksCompleted",
      "totalCertificates", "totalAdmissions", "totalBlogPosts",
      "totalAthletes", "scoutedAthletes", "activeTrainingPrograms",
      "recentRegistrations", "contactSubmissions" }

\* Math.round(n / d * 100) for n >= 0, d > 0: to the nearest integer, halves up
RoundPercent(n, d) == (200 * n + d) \div (2 * d)

VARIABLES
    store,      \* the document store, per kind of document
    dashPc,     \* "idle" before fetchDashboardStats is called, "done" once it settled
    failing,    \* the store calls that fail in the run of fetchDashboardStats
    dash,       \* how fetchDashboardStats settled
    call,       \* the one-shot call: its family, batch, pending queries, state
    settled,    \* what the promise returned to the caller settled with
    logged,     \* what console.error was given
    now,            \* the last value read from Date.now(), in milliseconds
    subs,           \* the subscribe calls made so far, in order
    subscriptions,  \* the registry: subscriptionId -> the listener whose
                    \* unsubscribe function it holds
    event,          \* what the last step did with a recompute: invoked
                    \* onUpdate, or logged the error
    input,      \* the function called and what the store holds for it
    output,     \* what the function returned
    changes,    \* per metric family, the changes made so far to the
                \* collections its snapshot is computed from
    seedStore,  \* the documents in each collection seedSampleData fills
    seeders     \* the calls of seedSampleData, one per browser session

dashVars == <<store, dashPc, failing, dash>>
fetchVars == <<call, settled, logged>>
subVars == <<now, subs, subscriptions, event>>
calcVars == <<input, output>>
syncVars == <<changes>>
seedVars == <<seedStore, seeders>>

(***************************************************************************)
(* fetchDashboardStats, src/unnamed/part_000 lines 52-195.                 *)
(***************************************************************************)
\* (mutant) the .catch of the users count left out
BatchCaughtNoUsers(q) == q \in BatchCalls \ {"users"}

\* lines 69-81: every member of the batch ends in .catch(() => ({count: 0}))
BatchCaught(q) == q \in BatchCalls

\* a member of the batch as Promise.all sees it: rejected only when the call
\* fails and no .catch recovers it
BatchRejected(F, q) == q \in F /\ ~BatchCaught(q)

\* the count a settled member of the batch holds: 0 after its .catch
BatchCount(s, F, q) == IF q \in F THEN 0 ELSE Count(s, q)

\* (mutant) the chain gives up after the first fallback collection
RECURSIVE ContactFromTwo(_, _, _)
ContactFromTwo(s, F, i) ==
    IF i > 2 THEN [count |-> 0, issued |-> {}]
    ELSE IF ContactChain[i] \notin F
         THEN [count |-> Count(s, ContactChain[i]), issued |-> {ContactChain[i]}]
         ELSE LET rest == ContactFromTwo(s, F, i + 1)
              IN  [count |-> rest.count,
                   issued |-> {ContactChain[i]} \cup rest.issued]

\* lines 83-86: contactSubmissions, .catch -> contacts, .catch -> messages,
\* .catch -> {count: 0}.  The result from position i of the chain on, given
\* that every earlier collection failed.
RECURSIVE ContactFrom(_, _, _)
ContactFrom(s, F, i) ==
    IF i > Len(ContactChain) THEN [count |-> 0, issued |-> {}]
    ELSE IF ContactChain[i] \notin F
         THEN [count |-> Count(s, ContactChain[i]), issued |-> {ContactChain[i]}]
         ELSE LET rest == ContactFrom(s, F, i + 1)
              IN  [count |-> rest.count,
                   issued |-> {ContactChain[i]} \cup rest.issued]

ContactSubmissionsCount(s, F) == ContactFrom(s, F, 1)

\* lines 98-120: the upcoming events count.  ok = FALSE when the retry of the
\* total count at line 118 throws out of the catch block.
UpcomingEventsCount(s, F) ==
    LET retry ==
            IF "totalEventsRetry" \in F
            THEN [ok |-> FALSE, count |-> 0, issued |-> {"totalEventsRetry"}]
            ELSE [ok |-> TRUE, count |-> Count(s, "totalEventsRetry"),
                  issued |-> {"totalEventsRetry"}]
    IN  IF "upcomingEvents" \in F
        THEN [retry EXCEPT !.issued = @ \cup {"upcomingEvents"}]
        ELSE IF Count(s, "upcomingEvents") # 0
        THEN [ok |-> TRUE, count |-> Count(s, "upcomingEvents"),
              issued |-> {"upcomingEvents"}]
        ELSE IF "totalEvents" \notin F
        THEN [ok |-> TRUE, count |-> Count(s, "totalEvents"),
              issued |-> {"upcomingEvents", "totalEvents"}]
        ELSE [retry EXCEPT !.issued = @ \cup {"upcomingEvents", "totalEvents"}]

\* lines 133-145: the training programs count, with its own try/catch
ActiveTrainingProgramsCount(s, F) ==
    IF "activeTrainingPrograms" \in F THEN 0
    ELSE Count(s, "activeTrainingPrograms")

\* lines 94-96
TasksCompleted(completed, tasks) ==
    IF tasks > 0 THEN RoundPercent(completed, tasks) ELSE 0

\* (mutant) the inner catch returns zeros for every statistic
PartialStatsAllZero(s, F) == [f \in StatFields |-> 0]

\* lines 176-189: the object the inner catch returns
PartialStats(s, F) ==
    [ totalUsers |-> BatchCount(s, F, "users"),
      activePrograms |-> BatchCount(s, F, "activePrograms"),
      upcomingEvents |-> 0,
      tasksCompleted |-> 0,
      totalCertificates |-> BatchCount(s, F, "certificates"),
      totalAdmissions |-> BatchCount(s, F, "admissionApplications"),
      totalBlogPosts |-> BatchCount(s, F, "blogPosts"),
      totalAthletes |-> BatchCount(s, F, "athletes"),
      scoutedAthletes |-> BatchCount(s, F, "scoutedAthletes"),
      activeTrainingPrograms |-> 0,
      recentRegistrations |-> 0,
      contactSubmissions |-> ContactSubmissionsCount(s, F).count ]

\* lines 147-163: the object the try block returns
FullStats(s, F) ==
    [ totalUsers |-> BatchCount(s, F, "users"),
      activePrograms |-> BatchCount(s, F, "activePrograms"),
      upcomingEvents |-> UpcomingEventsCount(s, F).count,
      tasksCompleted |-> TasksCompleted(Count(s, "completedTasks"),
                                        BatchCount(s, F, "tasks")),
      totalCertificates |-> BatchCount(s, F, "certificates"),
      totalAdmissions |-> BatchCount(s, F, "admissionApplications"),
      totalBlogPosts |-> BatchCount(s, F, "blogPosts"),
      totalAthletes |-> BatchCount(s, F, "athletes"),
      scoutedAthletes |-> BatchCount(s, F, "scoutedAthletes"),
      activeTrainingPrograms |-> ActiveTrainingProgramsCount(s, F),
      recentRegistrations |-> Count(s, "recentRegistrations"),
      contactSubmissions |-> ContactSubmissionsCount(s, F).count ]

\* lines 89-145: the calls of the second phase, in program order, up to the
\* first one that throws to the inner catch
SecondPhase(s, F) ==
    LET up == UpcomingEventsCount(s, F)
    IN  IF "completedTasks" \in F
        THEN [thrown |-> TRUE, issued |-> {"completedTasks"}]
        ELSE IF ~up.ok
        THEN [thrown |-> TRUE, issued |-> {"completedTasks"} \cup up.issued]
        ELSE IF "recentRegistrations" \in F
        THEN [thrown |-> TRUE,
              issued |-> {"completedTasks", "recentRegistrations"} \cup up.issued]
        ELSE [thrown |-> FALSE,
              issued |-> {"completedTasks", "recentRegistrations",
                          "activeTrainingPrograms"} \cup up.issued]

NoStats == [f \in {} |-> 0]

DashboardErrorMessage == "Failed to fetch dashboard statistics"

\* lines 52-195: the whole call, for store s when the calls in F fail
FetchDashboardStatsResult(s, F) ==
    LET first == BatchCalls \cup ContactSubmissionsCount(s, F).issued
        second == SecondPhase(s, F)
    IN  IF \E q \in BatchCalls : BatchRejected(F, q)
        THEN \* Promise.all rejects, the outer catch rethrows (lines 191-194)
             [outcome |-> "rejected", path |-> "outer",
              error |-> DashboardErrorMessage, stats |-> NoStats, issued |-> first]
        ELSE IF second.thrown
        THEN [outcome |-> "resolved", path |-> "partial", error |-> "",
              stats |-> PartialStats(s, F), issued |-> first \cup second.issued]
        ELSE [outcome |-> "resolved", path |-> "full", error |-> "",
              stats |-> FullStats(s, F), issued |-> first \cup second.issued]

DashIdle == [outcome |-> "none", path |-> "none", error |-> "",
             stats |-> NoStats, issued |-> {}]

DashInit ==
    /\ store \in Stores
    /\ dashPc = "idle"
    /\ failing = {}
    /\ dash = DashIdle

FetchDashboardStats ==
    /\ dashPc = "idle"
    /\ \E F \in FailSets :
        /\ failing' = F
        /\ dash' = FetchDashboardStatsResult(store, F)
    /\ dashPc' = "done"
    /\ UNCHANGED store
    /\ UNCHANGED <<fetchVars, subVars, calcVars, syncVars, seedVars>>

DashNext == FetchDashboardStats


(***************************************************************************)
(* Claims about fetchDashboardStats.                                       *)
(***************************************************************************)
DashDone == dashPc = "done"

\* the calls that were issued and failed
FailedCalls == failing \cap dash.issued

\* C1: for every combination of failing and succeeding store calls,
\* fetchDashboardStats resolves, never rejects, with an object that has all
\* 12 statistic fields, each a non-negative integer.
C1_ResolvesWithCompleteStats ==
    DashDone =>
        /\ dash.outcome = "resolved"
        /\ DOMAIN dash.stats = StatFields
        /\ \A f \in StatFields : dash.stats[f] \in Nat

\* a run in which a call of the batch and a call of the second phase failed
C1_Witness ==
    /\ DashDone
    /\ FailedCalls \cap BatchCalls # {}
    /\ FailedCalls \cap SecondCalls # {}
    /\ dash.outcome = "resolved"
    /\ store["certificate"] > 0

\* the statistic a call feeds.  The events, trainingPrograms and recentUsers
\* counts of the batch are fetched and never read.
DerivedFrom(q) ==
    CASE q = "users" -> {"totalUsers"}
      [] q = "activePrograms" -> {"activePrograms"}
      [] q = "tasks" -> {"tasksCompleted"}
      [] q = "completedTasks" -> {"tasksCompleted"}
      [] q = "certificates" -> {"totalCertificates"}
      [] q = "admissionApplications" -> {"totalAdmissions"}
      [] q = "blogPosts" -> {"totalBlogPosts"}
      [] q = "athletes" -> {"totalAthletes"}
      [] q = "scoutedAthletes" -> {"scoutedAthletes"}
      [] q \in ContactCalls -> {"contactSubmissions"}
      [] q \in {"upcomingEvents", "totalEvents", "totalEventsRetry"} ->
            {"upcomingEvents"}
      [] q = "recentRegistrations" -> {"recentRegistrations"}
      [] q = "activeTrainingPrograms" -> {"activeTrainingPrograms"}
      [] OTHER -> {}

\* the result when no call fails
Baseline == FetchDashboardStatsResult(store, {}).stats

\* the calls whose failure the code answers with another call: the contact
\* chain (lines 83-86) and the upcoming events count (lines 110-120)
HasFallback(q) == q \in ContactCalls \cup {"upcomingEvents", "totalEvents"}

\* C2: when exactly one store call fails and every other succeeds, only the
\* statistic derived from the failed call is reported as 0 (the count of the
\* fallback call where the failed call has one); every other field has the
\* value it has when no call fails.
C2_OnlyFailedStatisticZero ==
    (DashDone /\ Cardinality(failing) = 1 /\ failing \subseteq dash.issued) =>
        \A q \in failing :
            /\ dash.outcome = "resolved"
            /\ ~HasFallback(q) => \A f \in DerivedFrom(q) : dash.stats[f] = 0
            /\ \A f \in StatFields \ DerivedFrom(q) : dash.stats[f] = Baseline[f]

\* the contact collections whose count call succeeds, by position in the chain
ContactOk == {i \in 1..Len(ContactChain) : ContactChain[i] \notin failing}

FirstContactOk == CHOOSE i \in ContactOk : \A j \in ContactOk : i <= j

\* C3: contactSubmissions is the count of the first of contactSubmissions,
\* contacts, messages (in that order) whose count call succeeds, each one
\* called only after every earlier one failed, and 0 when all three fail.
C3_ContactFallbackChain ==
    DashDone =>
        /\ dash.outcome = "resolved"
        /\ dash.stats["contactSubmissions"] =
              IF ContactOk = {} THEN 0
              ELSE Count(store, ContactChain[FirstContactOk])
        /\ \A i \in 1..Len(ContactChain) :
              ContactChain[i] \in dash.issued
                  <=> \A j \in 1..(i - 1) : ContactChain[j] \in failing

\* the primary collection failed and the first fallback returned 3
C3_Witness ==
    /\ DashDone
    /\ failing = {"contactSubmissions"}
    /\ Count(store, "contacts") = 3
    /\ dash.stats["contactSubmissions"] = 3

\* all three collections failed
C3_AllFailReached ==
    /\ DashDone
    /\ ContactOk = {}
    /\ dash.issued \cap ContactCalls = ContactCalls

\* C10: whenever the events collection is non-empty, upcomingEvents is
\* greater than 0: the count of future-dated events when that is positive,
\* the count of all events otherwise.
C10_UpcomingEventsPositive ==
    (DashDone /\ store["eventPast"] + store["eventFuture"] > 0) =>
        /\ dash.outcome = "resolved"
        /\ dash.stats["upcomingEvents"] > 0
        /\ dash.stats["upcomingEvents"] =
              IF store["eventFuture"] > 0 THEN store["eventFuture"]
              ELSE store["eventPast"] + store["eventFuture"]

\* C26: every snapshot object the aggregator produces (DashboardStats,
\* AnalyticsData, UserEngagementMetrics and each ProgramPerformance record)
\* carries a computed-at timestamp field set at computation time, not copied
\* from any underlying document.  AnalyticsData, UserEngagementMetrics and
\* the ProgramPerformance records are built with lastUpdated: new Date();
\* for DashboardStats the claim says that the object fetchDashboardStats
\* resolves with has a field besides its twelve counts.
C26_SnapshotCarriesComputedAt ==
    (DashDone /\ dash.outcome = "resolved") =>
        DOMAIN dash.stats \ StatFields # {}

\* the calls of the second phase whose failure reaches the inner catch: the
\* completed-task count (line 91), the total-event count the catch block
\* falls back to (line 118) and the 7-day registration count (line 125)
SecondPhaseThrowers == {"completedTasks", "totalEventsRetry", "recentRegistrations"}

\* what a call of the first phase was left holding: its count, 0 if it failed
Fetched(q) == IF q \in failing THEN 0 ELSE Count(store, q)

C19_RetryFailedReached ==
    /\ DashDone
    /\ FailedCalls = {"upcomingEvents", "totalEventsRetry"}
    /\ store["eventFuture"] > 0
    /\ dash.stats["upcomingEvents"] = 0

(***************************************************************************)
(* fetchData of the three metric families, src/unnamed/part_001: the       *)
(* one-shot mode of getAnalyticsData, getUserEngagementMetrics and         *)
(* getProgramPerformanceMetrics.  None of its store queries has a .catch;  *)
(* the whole body sits in one try block.                                   *)
(***************************************************************************)
Families == {"analytics", "engagement", "programs"}

\* a store query of fetchData: its name and the day of the series it belongs
\* to (0 for a query outside the daily series)
Q(name) == <<name, 0>>

Daily(names) == {<<n, d>> : n \in names, d \in 1..WindowDays}

\* the queries fetchData awaits together, batch after batch
Batches(f) ==
    CASE f = "analytics" ->
            << \* lines 141-163
               { Q("users"), Q("activeUsers"), Q("programs"), Q("activePrograms"),
                 Q("events"), Q("upcomingEvents"), Q("tasks"), Q("completedTasks") },
               \* lines 166-192
               Daily({"totalUsers", "newUsers"}),
               \* lines 195-230
               Daily({"completed", "pending", "overdue"}) >>
      [] f = "engagement" ->
            << \* lines 307-318, 327, 341
               { Q("activeThisWeek"), Q("activeThisMonth") },
               { Q("sessions") },
               { Q("totalUsers") } >>
      [] f = "programs" ->
            << \* lines 420-424
               { Q("programs"), Q("enrollments"), Q("completions") } >>

\* lines 252, 363, 467: the message of the Error the catch block throws
GenericMessage(f) ==
    CASE f = "analytics" -> "Failed to fetch analytics data"
      [] f = "engagement" -> "Failed to fetch user engagement metrics"
      [] f = "programs" -> "Failed to fetch program performance metrics"

\* the errors a store query rejects with
StoreErrors == {"permission-denied", "unavailable"}



NoCall == [family |-> "none", state |-> "idle", batch |-> 0, pending |-> {},
           failed |-> {}]

Unsettled == [kind |-> "pending", message |-> "", batches |-> 0]

FetchInit ==
    /\ call = NoCall
    /\ settled = Unsettled
    /\ logged = {}

\* lines 291, 402, 506: return fetchData()
GetOneShot(f) ==
    /\ call.state = "idle"
    /\ call' = [family |-> f, state |-> "running", batch |-> 1,
                pending |-> Batches(f)[1], failed |-> {}]
    /\ UNCHANGED <<settled, logged>>
    /\ UNCHANGED <<dashVars, subVars, calcVars, syncVars, seedVars>>

\* (mutant) the catch block rethrows the error it caught
ThrownMessageOriginal(f, e) == e

\* lines 250-253, 361-364, 465-468: what the catch block throws for error e
ThrownMessage(f, e) == GenericMessage(f)

\* the batch after which fetchData returns its result
LastBatch(f) == Len(Batches(f))

\* a query succeeds; the await resumes once the whole batch has
QuerySucceeds(q) ==
    /\ q \in call.pending
    /\ IF call.state = "running" /\ call.pending = {q}
       THEN IF call.batch < LastBatch(call.family)
            THEN /\ call' = [call EXCEPT !.batch = @ + 1,
                                         !.pending = Batches(call.family)[call.batch + 1]]
                 /\ UNCHANGED settled
            ELSE /\ call' = [call EXCEPT !.state = "resolved", !.pending = {}]
                 /\ settled' = [kind |-> "resolved", message |-> "",
                                batches |-> call.batch]
       ELSE /\ call' = [call EXCEPT !.pending = @ \ {q}]
            /\ UNCHANGED settled
    /\ UNCHANGED logged
    /\ UNCHANGED <<dashVars, subVars, calcVars, syncVars, seedVars>>

\* a query fails with error e; Promise.all rejects at once and the catch block
\* logs e and throws.  The other queries of the batch stay pending.
QueryFails(q, e) ==
    /\ q \in call.pending
    /\ call' = [call EXCEPT !.pending = @ \ {q},
                            !.failed = @ \cup {q},
                            !.state = IF @ = "running" THEN "rejected" ELSE @]
    /\ IF call.state = "running"
       THEN /\ settled' = [kind |-> "rejected",
                           message |-> ThrownMessage(call.family, e),
                           batches |-> 0]
            /\ logged' = logged \cup {e}
       ELSE UNCHANGED <<settled, logged>>
    /\ UNCHANGED <<dashVars, subVars, calcVars, syncVars, seedVars>>

FetchNext ==
    \/ \E f \in Families : GetOneShot(f)
    \/ \E q \in call.pending : QuerySucceeds(q)
    \/ \E q \in call.pending, e \in StoreErrors : QueryFails(q, e)

(***************************************************************************)
(* Claims about the one-shot mode.                                         *)
(***************************************************************************)
\* C9: in one-shot mode, if any store query issued by fetchData fails, the
\* returned promise rejects with the family's fixed generic message; it never
\* resolves with a partly filled snapshot, and the original error is not
\* carried in the rejection.
C9_OneShotRejectsWithGenericMessage ==
    /\ call.failed # {} =>
          /\ settled.kind = "rejected"
          /\ settled.message = GenericMessage(call.family)
          /\ settled.message \notin StoreErrors
    /\ settled.kind = "resolved" =>
          /\ call.failed = {}
          /\ settled.batches = Len(Batches(call.family))

\* a query of the last batch of getAnalyticsData failed, after the earlier
\* batches had succeeded
C9_Witness ==
    /\ call.family = "analytics"
    /\ call.batch = 3
    /\ call.failed # {}
    /\ settled.kind = "rejected"
    /\ logged # {}

\* C20: for every interleaving of query completions, the outcome of a
\* fan-out batch (a snapshot returned or pushed, or a failure reported to the
\* caller) becomes observable only after every query of that batch has
\* settled; no outcome is produced while a member query is still pending.
C20_OutcomeAfterBatchSettled ==
    settled.kind # "pending" => call.pending = {}

(***************************************************************************)
(* Subscription mode of the three metric families, src/unnamed/part_001    *)
(* lines 256-288, 367-399, 471-503, the registry (line 122) and the        *)
(* beforeunload hook (lines 509-515).  A recompute is a run of fetchData;  *)
(* here it is in flight until it resolves or rejects.                      *)
(***************************************************************************)


NoSubscriptions == [i \in {} |-> 0]

NoEvent == [kind |-> "none", sub |-> 0, trigger |-> "none"]

\* lines 274, 385, 489: `${family}-${Date.now()}`
SubscriptionId(f, t) == <<f, t>>

\* no collection has changed since the module was loaded
NoChanges == [f \in Families |-> 0]

SubInit ==
    /\ now = 0
    /\ subs = <<>>
    /\ subscriptions = NoSubscriptions
    /\ event = NoEvent
    /\ changes = NoChanges

\* line 274: what Date.now() can return to a subscribe call: the value the
\* previous subscribe call read (same millisecond) or a later one.  Only
\* subscribe calls read the clock; the first reading is taken as 0.
ClockReadings == IF subs = <<>> THEN {now} ELSE {now, now + 1}

\* (mutant) the initial fetch left out
InitialFetchNone == "none"

\* lines 277-278, 388-389, 492-493: fetchData().then(callback).catch(...)
InitialFetch == "pending"

\* lines 256-288: getAnalyticsData(callback), and its two siblings, called
\* when the clock reads t, while fewer than k subscribe calls were made.  The
\* new listener is number Len(subs) + 1; the returned cleanup function is
\* Unsubscribe of that number.
Subscribe(k, f, t) ==
    /\ Len(subs) < k
    /\ t \in ClockReadings
    /\ now' = t
    /\ LET n == Len(subs) + 1
           id == SubscriptionId(f, t)
       IN  /\ subs' = Append(subs, [family |-> f, id |-> id, attached |-> TRUE,
                                    detachCalls |-> 0, invoked |-> FALSE,
                                    initial |-> InitialFetch, pushes |-> 0,
                                    pushFailed |-> FALSE,
                                    initialRead |-> changes[f],
                                    pushReads |-> <<>>,
                                    shown |-> 0, regressed |-> FALSE,
                                    firstSnapshot |-> FALSE])
           /\ subscriptions' = [i \in DOMAIN subscriptions \cup {id} |->
                                   IF i = id THEN n ELSE subscriptions[i]]
    /\ event' = NoEvent
    /\ UNCHANGED <<dashVars, fetchVars, calcVars, syncVars, seedVars>>

\* the store's unsubscribe function of listener m is called
Detach(ss, m) == [ss EXCEPT ![m].attached = FALSE, ![m].detachCalls = @ + 1]

\* lines 281-287: the cleanup function returned to subscriber n
Unsubscribe(n) ==
    /\ n \in DOMAIN subs
    /\ LET id == subs[n].id
       IN  IF id \in DOMAIN subscriptions
           THEN /\ subs' = [Detach(subs, subscriptions[id]) EXCEPT ![n].invoked = TRUE]
                /\ subscriptions' = [i \in DOMAIN subscriptions \ {id} |->
                                        subscriptions[i]]
           ELSE /\ subs' = [subs EXCEPT ![n].invoked = TRUE]
                /\ UNCHANGED subscriptions
    /\ event' = NoEvent
    /\ UNCHANGED now
    /\ UNCHANGED <<dashVars, fetchVars, calcVars, syncVars, seedVars>>

\* lines 511-514: the beforeunload handler
BeforeUnload ==
    /\ LET held == {subscriptions[i] : i \in DOMAIN subscriptions}
       IN  subs' = [n \in DOMAIN subs |->
                       IF n \in held THEN Detach(subs, n)[n] ELSE subs[n]]
    /\ subscriptions' = NoSubscriptions
    /\ event' = NoEvent
    /\ UNCHANGED now
    /\ UNCHANGED <<dashVars, fetchVars, calcVars, syncVars, seedVars>>

\* (mutant) a notification that arrives while a recompute of the listener is
\* in flight starts no recompute
StoreNotifiesDeduplicated(n) ==
    /\ n \in DOMAIN subs
    /\ subs[n].attached
    /\ subs[n].pushes < MaxInFlight
    /\ subs[n].initial # "pending"
    /\ subs[n].pushes = 0
    /\ subs' = [subs EXCEPT ![n].pushes = @ + 1,
                            ![n].pushReads = Append(@, changes[subs[n].family])]
    /\ event' = NoEvent
    /\ UNCHANGED <<now, subscriptions>>
    /\ UNCHANGED <<dashVars, fetchVars, calcVars, syncVars, seedVars>>

\* lines 258-267: the store notifies listener n (the first snapshot of the
\* watched query, or a change of its result); the listener starts a
\* recompute, whose queries read the collections as they are from now on
StoreNotifies(n) ==
    /\ n \in DOMAIN subs
    /\ subs[n].attached
    /\ subs[n].pushes < MaxInFlight
    /\ subs' = [subs EXCEPT ![n].pushes = @ + 1,
                            ![n].pushReads = Append(@, changes[subs[n].family])]
    /\ event' = NoEvent
    /\ UNCHANGED <<now, subscriptions>>
    /\ UNCHANGED <<dashVars, fetchVars, calcVars, syncVars, seedVars>>

Triggers == {"initial", "push"}

\* a recompute of listener n, started by trigger g, has not settled
InFlight(n, g) ==
    /\ n \in DOMAIN subs
    /\ IF g = "initial" THEN subs[n].initial = "pending"
       ELSE subs[n].pushes > 0

\* the recomputes in flight that trigger g started, by position: the initial
\* fetch, or the recomputes the notifications started, oldest first
Flights(n, g) == IF g = "initial" THEN {0} ELSE DOMAIN subs[n].pushReads

Without(s, i) == SubSeq(s, 1, i - 1) \o SubSeq(s, i + 1, Len(s))

\* onUpdate is given a snapshot of the collections after their v-th change;
\* regressed tells that the snapshot given before was a newer one
Shown(sub, v) == [sub EXCEPT !.shown = v, !.regressed = v < sub.shown]

\* lines 262-263 and 278: fetchData resolved, the callback is invoked
RecomputeResolves(n, g) ==
    /\ InFlight(n, g)
    /\ \E i \in Flights(n, g) :
          subs' = IF g = "initial"
                  THEN [subs EXCEPT ![n] = Shown([@ EXCEPT !.initial = "delivered"],
                                                 @.initialRead)]
                  ELSE [subs EXCEPT ![n] = Shown([@ EXCEPT !.pushes = @ - 1,
                                                          !.pushReads = Without(@, i)],
                                                 @.pushReads[i])]
    /\ event' = [kind |-> "onUpdate", sub |-> n, trigger |-> g]
    /\ UNCHANGED <<now, subscriptions>>
    /\ UNCHANGED <<dashVars, fetchVars, calcVars, syncVars, seedVars>>

\* (mutant) the listener gives up after a failed recompute: it detaches
\* itself and leaves the registry
RecomputeRejectsGivesUp(n, g) ==
    /\ InFlight(n, g)
    /\ \E i \in Flights(n, g) :
          subs' = IF g = "initial" THEN [subs EXCEPT ![n].initial = "failed"]
                  ELSE [subs EXCEPT ![n].pushes = @ - 1,
                                    ![n].pushReads = Without(@, i),
                                    ![n].pushFailed = TRUE,
                                    ![n].attached = FALSE]
    /\ subscriptions' = IF g = "initial" THEN subscriptions
                        ELSE [i \in DOMAIN subscriptions \ {subs[n].id} |->
                                 subscriptions[i]]
    /\ event' = [kind |-> "logged", sub |-> n, trigger |-> g]
    /\ UNCHANGED now
    /\ UNCHANGED <<dashVars, fetchVars, calcVars, syncVars, seedVars>>

\* lines 264-266 and 278: fetchData rejected, the error is logged
RecomputeRejects(n, g) ==
    /\ InFlight(n, g)
    /\ \E i \in Flights(n, g) :
          subs' = IF g = "initial" THEN [subs EXCEPT ![n].initial = "failed"]
                  ELSE [subs EXCEPT ![n].pushes = @ - 1,
                                    ![n].pushReads = Without(@, i),
                                    ![n].pushFailed = TRUE]
    /\ event' = [kind |-> "logged", sub |-> n, trigger |-> g]
    /\ UNCHANGED <<now, subscriptions>>
    /\ UNCHANGED <<dashVars, fetchVars, calcVars, syncVars, seedVars>>

\* the subscription mode with at most k subscribe calls
\* up to k subscribe calls, of the families F
SubNextOf(k, F) ==
    \/ \E f \in F, t \in ClockReadings : Subscribe(k, f, t)
    \/ \E n \in 1..k : Unsubscribe(n)
    \/ BeforeUnload
    \/ \E n \in 1..k : StoreNotifies(n)
    \/ \E n \in 1..k, g \in Triggers : RecomputeResolves(n, g)
    \/ \E n \in 1..k, g \in Triggers : RecomputeRejects(n, g)

SubNextUpTo(k) == SubNextOf(k, Families)

SubNext == SubNextUpTo(MaxSubs)

\* the collections fetchData of a family reads (lines 141-230, 307-341,
\* 414-424)
Dependencies(f) ==
    CASE f = "analytics" -> {"users", "programs", "events", "tasks"}
      [] f = "engagement" -> {"users", "sessions"}
      [] f = "programs" -> {"programs", "enrollments", "completions"}

Collections == UNION {Dependencies(f) : f \in Families}

\* a document of collection c is added, changed or deleted, and the result
\* of every watched query stays as it was (lines 259, 370, 474: the
\* listeners watch the first document of the collection groups analytics,
\* sessions and programs): the store notifies no listener
DependencyChanges(c) ==
    /\ \A f \in Families : c \in Dependencies(f) => changes[f] < MaxChanges
    /\ changes' = [f \in Families |->
                      IF c \in Dependencies(f) THEN changes[f] + 1 ELSE changes[f]]
    /\ event' = NoEvent
    /\ UNCHANGED <<now, subs, subscriptions>>
    /\ UNCHANGED <<dashVars, fetchVars, calcVars, seedVars>>

\* lines 258-267: the store sends listener n the first snapshot of the
\* watched query, which it sends once to every listener that stays attached;
\* the listener starts a recompute as for any other snapshot
FirstSnapshot(n) ==
    /\ n \in DOMAIN subs
    /\ subs[n].attached
    /\ ~subs[n].firstSnapshot
    /\ subs[n].pushes < MaxInFlight
    /\ subs' = [subs EXCEPT ![n].pushes = @ + 1,
                            ![n].pushReads = Append(@, changes[subs[n].family]),
                            ![n].firstSnapshot = TRUE]
    /\ event' = NoEvent
    /\ UNCHANGED <<now, subscriptions>>
    /\ UNCHANGED <<dashVars, fetchVars, calcVars, syncVars, seedVars>>

\* getAnalyticsData(callback) and its like are called once
SubscribeOnce(f, t) == subs = <<>> /\ Subscribe(MaxListeners, f, t)

\* one subscription while the collections change
SyncNext ==
    \/ \E f \in Families, t \in ClockReadings : SubscribeOnce(f, t)
    \/ \E n \in 1..MaxListeners : Unsubscribe(n)
    \/ BeforeUnload
    \/ \E n \in 1..MaxListeners : StoreNotifies(n)
    \/ \E n \in 1..MaxListeners : FirstSnapshot(n)
    \/ \E n \in 1..MaxListeners, g \in Triggers : RecomputeResolves(n, g)
    \/ \E n \in 1..MaxListeners, g \in Triggers : RecomputeRejects(n, g)
    \/ \E c \in Collections : DependencyChanges(c)

\* the same while every query of every recompute succeeds
SyncAvailableNext ==
    \/ \E f \in Families, t \in ClockReadings : SubscribeOnce(f, t)
    \/ \E n \in 1..MaxListeners : Unsubscribe(n)
    \/ BeforeUnload
    \/ \E n \in 1..MaxListeners : StoreNotifies(n)
    \/ \E n \in 1..MaxListeners : FirstSnapshot(n)
    \/ \E n \in 1..MaxListeners, g \in Triggers : RecomputeResolves(n, g)
    \/ \E c \in Collections : DependencyChanges(c)

\* the families whose subscribers the listener claims follow: the three
\* subscription modes are the same code, and two families give both a pair
\* of subscribers of one family and a pair of different ones
PushFamilies == {"analytics", "programs"}

PushNext == SubNextOf(MaxListeners, PushFamilies)

(***************************************************************************)
(* The computations on the documents and counts the store returned.  A     *)
(* call is described by input: the function called and what the store      *)
(* holds for it; output is what the function returned.                     *)
(***************************************************************************)
NotCalled == [fn |-> "none"]

NotRun == [done |-> FALSE]

Returned(v) == [done |-> TRUE, value |-> v]

CalcRest ==
    /\ input = NotCalled
    /\ output = NotRun

\* the sequences over S of length at most n
RECURSIVE SeqsUpTo(_, _)
SeqsUpTo(S, n) ==
    IF n = 0 THEN {<<>>}
    ELSE LET prev == SeqsUpTo(S, n - 1)
         IN  prev \cup {Append(s, x) : s \in prev, x \in S}

Min(a, b) == IF a <= b THEN a ELSE b

(***************************************************************************)
(* The percentages.  Each is derived from two counts that two separate     *)
(* count queries returned.                                                 *)
(***************************************************************************)
\* (mutant) the guard tests the numerator instead of the denominator
CompletionRateGuardsNumerator(completed, tasks) ==
    IF completed > 0
    THEN IF tasks > 0 THEN RoundPercent(completed, tasks) ELSE 100
    ELSE 0

\* src/unnamed/part_001 lines 241-243: completionRate of getAnalyticsData
CompletionRate(completed, tasks) ==
    IF tasks > 0 THEN RoundPercent(completed, tasks) ELSE 0

\* src/unnamed/part_001 line 458: completionRate of one program
ProgramCompletionRate(completions, enrollments) ==
    IF enrollments > 0 THEN RoundPercent(completions, enrollments) ELSE 0

\* src/unnamed/part_001 lines 342-348: weeklyEngagement and monthlyEngagement
Engagement(active, totalUsers) ==
    IF totalUsers > 0 THEN Min(100, RoundPercent(active, totalUsers)) ELSE 0

\* analyticsService.ts lines 216-220: athletesScouted of fetchAnalyticsMetrics
AthletesScouted(scoutedCount, totalAthletesCount) ==
    IF totalAthletesCount > 0 THEN RoundPercent(scoutedCount, totalAthletesCount)
    ELSE 0

PercentSites ==
    { "tasksCompleted", "completionRate", "programCompletionRate",
      "athletesScouted", "weeklyEngagement", "monthlyEngagement" }

\* the percentage reported at a site for numerator n and denominator d
Percentage(site, n, d) ==
    CASE site = "tasksCompleted" -> TasksCompleted(n, d)
      [] site = "completionRate" -> CompletionRate(n, d)
      [] site = "programCompletionRate" -> ProgramCompletionRate(n, d)
      [] site = "athletesScouted" -> AthletesScouted(n, d)
      [] site \in {"weeklyEngagement", "monthlyEngagement"} -> Engagement(n, d)

\* the two counts are read by two queries, not in one transaction: any pair
\* of counts can come back
PercentageInputs ==
    { [fn |-> "percentage", site |-> s, numerator |-> n, denominator |-> d] :
        s \in PercentSites, n \in 0..MaxCount, d \in 0..MaxCount }

DerivePercentage ==
    /\ input.fn = "percentage"
    /\ ~output.done
    /\ output' = Returned(Percentage(input.site, input.numerator, input.denominator))
    /\ UNCHANGED input
    /\ UNCHANGED <<dashVars, fetchVars, subVars, syncVars, seedVars>>

PercentageDerived == input.fn = "percentage" /\ output.done

\* C11: every percentage the aggregator derives (dashboard tasksCompleted,
\* analytics completionRate, per-program completionRate, athletesScouted,
\* weekly and monthly engagement) is 0 whenever its denominator count is 0,
\* whatever the numerator.
C11_ZeroDenominatorGivesZero ==
    (PercentageDerived /\ input.denominator = 0) => output.value = 0

\* the completed-task count is positive while the task count came back 0
C11_Witness ==
    /\ PercentageDerived
    /\ input.site = "completionRate"
    /\ input.denominator = 0
    /\ input.numerator > 0
    /\ output.value = 0

\* v is an integer nearest to 100 * n / d
NearestPercent(v, n, d) ==
    /\ 2 * (100 * n - v * d) <= d
    /\ 2 * (v * d - 100 * n) <= d

\* C12: every percentage reported in a snapshot (dashboard tasksCompleted,
\* analytics completionRate, per-program completionRate, weekly and monthly
\* engagement) is an integer between 0 and 100 inclusive, equal to the ratio
\* times 100 rounded to the nearest integer, for all non-negative counts the
\* store can return.
C12_PercentageInRangeAndRounded ==
    (PercentageDerived /\ input.site # "athletesScouted") =>
        /\ output.value \in 0..100
        /\ input.denominator > 0 =>
              NearestPercent(output.value, input.numerator, input.denominator)

(***************************************************************************)
(* fetchLevelData, analyticsService.ts lines 83-114.                       *)
(***************************************************************************)
\* the level field of an athlete document; "" stands for a document without
\* the field (or with an empty one), "Pro" for a value that is no bucket name
Levels == {"Grassroots", "Semi-Pro", "Professional", "Pro", ""}

\* lines 87-91 and 101-105: the buckets, in the order returned
LevelNames == <<"Grassroots", "Semi-Pro", "Professional">>

LevelColors == <<"#8884d8", "#82ca9d", "#ffc658">>

\* lines 87-91
InitialLevelCounts == [name \in {LevelNames[i] : i \in 1..Len(LevelNames)} |-> 0]

\* line 95: data.level || "Grassroots"
LevelOf(level) == IF level = "" THEN "Grassroots" ELSE level

\* lines 96-98: one athlete document counted
CountLevel(levelCounts, level) ==
    IF LevelOf(level) \in DOMAIN levelCounts
    THEN [levelCounts EXCEPT ![LevelOf(level)] = @ + 1]
    ELSE levelCounts

\* lines 93-99: athletesSnapshot.forEach
RECURSIVE CountLevels(_, _)
CountLevels(levelCounts, athletes) ==
    IF athletes = <<>> THEN levelCounts
    ELSE CountLevels(CountLevel(levelCounts, Head(athletes)), Tail(athletes))

\* lines 101-105 (and 108-112 with all counts 0)
LevelEntries(levelCounts) ==
    [i \in 1..Len(LevelNames) |->
        [name |-> LevelNames[i], value |-> levelCounts[LevelNames[i]],
         color |-> LevelColors[i]]]

\* the whole function: the levels of the athlete documents, in snapshot
\* order, or a getDocs that fails
FetchLevelDataResult(athletes, fails) ==
    IF fails THEN LevelEntries(InitialLevelCounts)
    ELSE LevelEntries(CountLevels(InitialLevelCounts, athletes))

LevelInputs ==
    { [fn |-> "fetchLevelData", athletes |-> a, fails |-> b] :
        a \in SeqsUpTo(Levels, MaxAthletes), b \in BOOLEAN }

FetchLevelData ==
    /\ input.fn = "fetchLevelData"
    /\ ~output.done
    /\ output' = Returned(FetchLevelDataResult(input.athletes, input.fails))
    /\ UNCHANGED input
    /\ UNCHANGED <<dashVars, fetchVars, subVars, syncVars, seedVars>>

LevelDataFetched == input.fn = "fetchLevelData" /\ output.done /\ ~input.fails

\* the athletes of the input whose level is l
AthletesWithLevel(l) == {i \in DOMAIN input.athletes : input.athletes[i] = l}

\* C13: for every set of athlete documents, fetchLevelData returns exactly
\* the three entries Grassroots, Semi-Pro, Professional (in that order) whose
\* values sum to the number of athletes: each athlete is counted in exactly
\* one bucket, and an athlete with a missing or unrecognized level is counted
\* under Grassroots.
C13_LevelBucketsSumToAthletes ==
    LevelDataFetched =>
        /\ Len(output.value) = 3
        /\ \A i \in 1..3 : output.value[i].name = LevelNames[i]
        /\ output.value[1].value + output.value[2].value + output.value[3].value
              = Len(input.athletes)
        /\ output.value[1].value =
              Cardinality(AthletesWithLevel("Grassroots") \cup AthletesWithLevel("")
                          \cup AthletesWithLevel("Pro"))
        /\ output.value[2].value = Cardinality(AthletesWithLevel("Semi-Pro"))
        /\ output.value[3].value = Cardinality(AthletesWithLevel("Professional"))

\* C14: for the five athletes with levels "Pro", "Pro", "Semi-Pro", ""
\* (missing) and "Grassroots", fetchLevelData reports Grassroots = 2,
\* Semi-Pro = 1, Professional = 2.
C14_LevelScenario ==
    (LevelDataFetched
        /\ input.athletes = <<"Pro", "Pro", "Semi-Pro", "", "Grassroots">>) =>
        /\ output.value[1].value = 2
        /\ output.value[2].value = 1
        /\ output.value[3].value = 2

(***************************************************************************)
(* fetchRegionalData, analyticsService.ts lines 39-78.  locationCounts is  *)
(* an object; here it is the sequence of its entries in insertion order,   *)
(* the order Object.entries lists them in (no location name of the model   *)
(* is an integer index, which Object.entries would list first).            *)
(***************************************************************************)
\* line 73: slice(0, 10)
TopRegions == 10

\* the location field of the documents: names of counties and, last, the
\* number of a district; "" stands for a missing one
RegionNames ==
    << "Montserrado", "Nimba", "Bong", "Lofa", "Margibi", "Bassa", "Maryland",
       "Sinoe", "Bomi", "Gedeh", "Gbarpolu", "7" >>

\* ten athlete documents, one in each of ten regions
TenRegions == [i \in 1..TopRegions |-> RegionNames[i]]

\* the locations of the other documents: the last of the ten regions, two
\* more regions, and no location
ExtraLocations == {RegionNames[10], RegionNames[11], RegionNames[12], ""}

\* lines 49 and 58: data.location || "Unknown"
LocationOf(location) == IF location = "" THEN "Unknown" ELSE location

\* lines 50-53 and 59-62: one document counted; field is "athletes" or "events"
CountLocation(locationCounts, location, field) ==
    LET name == LocationOf(location)
        at == {i \in DOMAIN locationCounts : locationCounts[i].name = name}
        fresh == [name |-> name, athletes |-> 0, events |-> 0]
    IN  IF at = {}
        THEN Append(locationCounts, [fresh EXCEPT ![field] = @ + 1])
        ELSE [i \in DOMAIN locationCounts |->
                IF i \in at THEN [locationCounts[i] EXCEPT ![field] = @ + 1]
                ELSE locationCounts[i]]

\* lines 47-54 and 56-63: snapshot.forEach
RECURSIVE CountLocations(_, _, _)
CountLocations(locationCounts, docs, field) ==
    IF docs = <<>> THEN locationCounts
    ELSE CountLocations(CountLocation(locationCounts, Head(docs), field),
                        Tail(docs), field)

\* the array index a property name denotes, -1 when it denotes none
ArrayIndex(name) == IF name = "7" THEN 7 ELSE -1

\* e placed among the entries named by array indices, in ascending order
InsertByIndex(sorted, e) ==
    LET behind == {i \in DOMAIN sorted :
                      ArrayIndex(sorted[i].name) > ArrayIndex(e.name)}
        p == IF behind = {} THEN Len(sorted) + 1
             ELSE CHOOSE i \in behind : \A j \in behind : i <= j
    IN  SubSeq(sorted, 1, p - 1) \o <<e>> \o SubSeq(sorted, p, Len(sorted))

RECURSIVE SortByIndex(_, _)
SortByIndex(sorted, entries) ==
    IF entries = <<>> THEN sorted
    ELSE SortByIndex(InsertByIndex(sorted, Head(entries)), Tail(entries))

IsIndexEntry(e) == ArrayIndex(e.name) >= 0

IsNameEntry(e) == ArrayIndex(e.name) < 0

\* line 66: Object.entries lists the properties named by array indices
\* first, in ascending numeric order, then the others in the order they were
\* created in
ObjectEntries(locationCounts) ==
    SortByIndex(<<>>, SelectSeq(locationCounts, IsIndexEntry))
        \o SelectSeq(locationCounts, IsNameEntry)

\* (mutant) the comparator of the sort reversed: a.athletes - b.athletes
PrecedesAscending(x, e) == x.athletes <= e.athletes

\* line 72: sort((a, b) => b.athletes - a.athletes), a stable sort: entry x,
\* listed before entry e, stays in front of it unless e has more athletes
Precedes(x, e) == x.athletes >= e.athletes

\* e placed into the sorted entries, behind every entry that stays in front
InsertRegion(sorted, e) ==
    LET behind == {i \in DOMAIN sorted : ~Precedes(sorted[i], e)}
        p == IF behind = {} THEN Len(sorted) + 1
             ELSE CHOOSE i \in behind : \A j \in behind : i <= j
    IN  SubSeq(sorted, 1, p - 1) \o <<e>> \o SubSeq(sorted, p, Len(sorted))

RECURSIVE SortRegions(_, _)
SortRegions(sorted, entries) ==
    IF entries = <<>> THEN sorted
    ELSE SortRegions(InsertRegion(sorted, Head(entries)), Tail(entries))

\* line 73
Slice(entries, n) == SubSeq(entries, 1, Min(n, Len(entries)))

\* the whole function; fails names the getDocs call that fails, if any
FetchRegionalDataResult(athletes, events, fails) ==
    IF fails # "none" THEN <<>>
    ELSE LET counted == CountLocations(CountLocations(<<>>, athletes, "athletes"),
                                       events, "events")
         IN  Slice(SortRegions(<<>>, ObjectEntries(counted)), TopRegions)

RegionalInputs ==
    { [fn |-> "fetchRegionalData",
       athletes |-> IF front THEN extra \o base ELSE base \o extra,
       events |-> ev, fails |-> f] :
        base \in {<<>>, TenRegions},
        extra \in SeqsUpTo(ExtraLocations, MaxExtraAthletes),
        front \in BOOLEAN,
        ev \in SeqsUpTo(ExtraLocations, MaxEventDocs),
        f \in {"none", "athletes", "events"} }

FetchRegionalData ==
    /\ input.fn = "fetchRegionalData"
    /\ ~output.done
    /\ output' = Returned(FetchRegionalDataResult(input.athletes, input.events,
                                                  input.fails))
    /\ UNCHANGED input
    /\ UNCHANGED <<dashVars, fetchVars, subVars, syncVars, seedVars>>

RegionalDataFetched ==
    input.fn = "fetchRegionalData" /\ output.done /\ input.fails = "none"

\* the athlete documents of the input located in region r
AthletesIn(r) ==
    Cardinality({i \in DOMAIN input.athletes : LocationOf(input.athletes[i]) = r})

\* the regions some document of the input is located in
RegionsSeen ==
    {LocationOf(input.athletes[i]) : i \in DOMAIN input.athletes}
        \cup {LocationOf(input.events[i]) : i \in DOMAIN input.events}

RegionsKept == {output.value[i].name : i \in DOMAIN output.value}

\* C15: for every set of athlete and event documents, fetchRegionalData
\* returns at most 10 regions, ordered so that athlete counts never increase
\* from one entry to the next, and every region left out has an athlete
\* count no greater than that of every region kept.
C15_TopRegionsByAthletes ==
    RegionalDataFetched =>
        /\ Len(output.value) <= 10
        /\ \A i \in DOMAIN output.value :
              output.value[i].athletes = AthletesIn(output.value[i].name)
        /\ \A i, j \in DOMAIN output.value :
              i < j => output.value[i].athletes >= output.value[j].athletes
        /\ \A r \in RegionsSeen \ RegionsKept : \A i \in DOMAIN output.value :
              AthletesIn(r) <= output.value[i].athletes

\* the event documents of the input located in region r
EventsIn(r) ==
    Cardinality({i \in DOMAIN input.events : LocationOf(input.events[i]) = r})

\* the place of the first document located in region r, athletes scanned
\* before events
FirstSeen(r) ==
    LET docs == input.athletes \o input.events
    IN  CHOOSE i \in DOMAIN docs :
            /\ LocationOf(docs[i]) = r
            /\ \A j \in DOMAIN docs : LocationOf(docs[j]) = r => i <= j

\* the regions that rank ahead of region r: more athletes, or as many and
\* seen earlier
RankAhead(r) ==
    {q \in RegionsSeen :
        \/ AthletesIn(q) > AthletesIn(r)
        \/ AthletesIn(q) = AthletesIn(r) /\ FirstSeen(q) < FirstSeen(r)}

\* C24: in fetchRegionalData, athletes and events with no location are
\* grouped under the region "Unknown", a region that has events but no
\* athletes appears in the result with athletes = 0 whenever fewer than 10
\* regions rank ahead of it, and regions with equal athlete counts appear in
\* the order in which they were first seen (athletes scanned before events).
C24_UnknownZeroAthletesAndFirstSeenOrder ==
    RegionalDataFetched =>
        /\ \A i \in DOMAIN output.value :
              /\ output.value[i].name # ""
              /\ output.value[i].athletes = AthletesIn(output.value[i].name)
              /\ output.value[i].events = EventsIn(output.value[i].name)
        /\ \A r \in RegionsSeen :
              (AthletesIn(r) = 0 /\ Cardinality(RankAhead(r)) < 10) =>
                  \E i \in DOMAIN output.value :
                      output.value[i].name = r /\ output.value[i].athletes = 0
        /\ \A i, j \in DOMAIN output.value :
              (i < j /\ output.value[i].athletes = output.value[j].athletes) =>
                  FirstSeen(output.value[i].name) < FirstSeen(output.value[j].name)

\* twelve regions were seen: one with two athletes leads the ten kept, and a
\* region with one athlete was left out
C15_Witness ==
    /\ RegionalDataFetched
    /\ Cardinality(RegionsSeen) = 12
    /\ Len(output.value) = 10
    /\ output.value[1].athletes = 2
    /\ output.value[10].athletes = 1
    /\ \E r \in RegionsSeen \ RegionsKept : AthletesIn(r) = 1

(***************************************************************************)
(* fetchGrowthData, analyticsService.ts lines 119-189.  Months are counted *)
(* from the month of the call: 0 is the current month, -5 the first month  *)
(* of the window.  monthlyData is the sequence of its entries in insertion *)
(* order.                                                                  *)
(***************************************************************************)
\* line 140
MonthNames ==
    << "Jan", "Feb", "Mar", "Apr", "May", "Jun",
       "Jul", "Aug", "Sep", "Oct", "Nov", "Dec" >>

\* lines 122 and 142: the current month and the five before it
WindowMonths == 6

\* now.getMonth() at the call: January and March (the window starts in the
\* year before) and December
NowMonths == {0, 2, 11}

\* the createdAt field of a document: absent, or the month it lies in (before
\* the window, in it, or after it, 7 being the month of the next year that is
\* named like the first month of the window)
CreatedAts ==
    {[has |-> FALSE, month |-> 0]}
        \cup {[has |-> TRUE, month |-> m] : m \in {-6, -5, -1, 0, 7}}

\* lines 124-136: where("createdAt", ">=", sixMonthsAgo)
SinceSixMonthsAgo(docs) ==
    SelectSeq(docs, LAMBDA d : d.has /\ d.month >= -(WindowMonths - 1))

\* lines 143-144 and 152-153: monthNames[date.getMonth()]
MonthKey(nowMonth, month) == MonthNames[((nowMonth + month + 24) % 12) + 1]

\* lines 142-146: the six entries, oldest month first
InitialMonthlyData(nowMonth) ==
    [i \in 1..WindowMonths |->
        [month |-> MonthKey(nowMonth, i - WindowMonths), athletes |-> 0,
         events |-> 0]]

\* lines 150-157 and 162-169: one document counted; field is "athletes" or
\* "events"
CountMonth(monthlyData, nowMonth, doc, field) ==
    IF ~doc.has THEN monthlyData
    ELSE [i \in DOMAIN monthlyData |->
            IF monthlyData[i].month = MonthKey(nowMonth, doc.month)
            THEN [monthlyData[i] EXCEPT ![field] = @ + 1]
            ELSE monthlyData[i]]

\* lines 149-158 and 161-170: snapshot.forEach
RECURSIVE CountMonths(_, _, _, _)
CountMonths(monthlyData, nowMonth, docs, field) ==
    IF docs = <<>> THEN monthlyData
    ELSE CountMonths(CountMonth(monthlyData, nowMonth, Head(docs), field),
                     nowMonth, Tail(docs), field)

\* (mutant) the running totals are left out
CumulativeEntryRaw(counts, cumulativeAthletes, cumulativeEvents) ==
    [month |-> counts.month, athletes |-> counts.athletes,
     events |-> counts.events]

\* lines 177-183: the entry of one month, given the running totals so far
CumulativeEntry(counts, cumulativeAthletes, cumulativeEvents) ==
    [month |-> counts.month,
     athletes |-> cumulativeAthletes + counts.athletes,
     events |-> cumulativeEvents + counts.events]

\* lines 173-184: Object.entries(monthlyData).map(...)
RECURSIVE Cumulative(_, _, _)
Cumulative(monthlyData, cumulativeAthletes, cumulativeEvents) ==
    IF monthlyData = <<>> THEN <<>>
    ELSE LET e == CumulativeEntry(Head(monthlyData), cumulativeAthletes,
                                  cumulativeEvents)
         IN  <<e>> \o Cumulative(Tail(monthlyData), e.athletes, e.events)

\* lines 138-170: the raw counts per month
MonthlyData(nowMonth, athletes, events) ==
    CountMonths(CountMonths(InitialMonthlyData(nowMonth), nowMonth,
                            SinceSixMonthsAgo(athletes), "athletes"),
                nowMonth, SinceSixMonthsAgo(events), "events")

\* the whole function; fails names the getDocs call that fails, if any
FetchGrowthDataResult(nowMonth, athletes, events, fails) ==
    IF fails # "none" THEN <<>>
    ELSE Cumulative(MonthlyData(nowMonth, athletes, events), 0, 0)

GrowthInputs ==
    { [fn |-> "fetchGrowthData", nowMonth |-> m, athletes |-> a, events |-> ev,
       fails |-> f] :
        m \in NowMonths,
        a \in SeqsUpTo(CreatedAts, MaxExtraAthletes),
        ev \in SeqsUpTo(CreatedAts, MaxEventDocs),
        f \in {"none", "athletes", "events"} }

FetchGrowthData ==
    /\ input.fn = "fetchGrowthData"
    /\ ~output.done
    /\ output' = Returned(FetchGrowthDataResult(input.nowMonth, input.athletes,
                                                input.events, input.fails))
    /\ UNCHANGED input
    /\ UNCHANGED <<dashVars, fetchVars, subVars, syncVars, seedVars>>

GrowthDataFetched ==
    input.fn = "fetchGrowthData" /\ output.done /\ input.fails = "none"

\* C25: every series returned by fetchGrowthData has exactly 6 entries, one
\* for each of the 6 consecutive calendar months ending with the current
\* month, oldest first (also when the window crosses a year boundary), and a
\* month with no matching documents is present rather than omitted.
C25_SixConsecutiveMonths ==
    (input.fn = "fetchGrowthData" /\ output.done) =>
        /\ Len(output.value) = 6
        /\ \A i \in DOMAIN output.value :
              output.value[i].month
                  = MonthNames[((input.nowMonth + 12 - (6 - i)) % 12) + 1]

\* the raw count of window month i (1 the oldest): the documents the query
\* returned whose month name is the name of that month
RawMonthCount(docs, i) ==
    Cardinality({k \in DOMAIN docs :
                    /\ docs[k].has
                    /\ docs[k].month >= -(WindowMonths - 1)
                    /\ MonthKey(input.nowMonth, docs[k].month)
                          = MonthKey(input.nowMonth, i - WindowMonths)})

RECURSIVE RawCountUpTo(_, _)
RawCountUpTo(docs, i) ==
    IF i = 0 THEN 0 ELSE RawCountUpTo(docs, i - 1) + RawMonthCount(docs, i)

\* C17: in the series returned by fetchGrowthData, both the athletes value
\* and the events value never decrease from one month entry to the next, and
\* each entry equals the sum of the raw per-month counts of that month and
\* all earlier months of the window.
C17_GrowthIsCumulative ==
    GrowthDataFetched =>
        /\ Len(output.value) = WindowMonths
        /\ \A i \in 1..WindowMonths :
              /\ output.value[i].month = MonthKey(input.nowMonth, i - WindowMonths)
              /\ output.value[i].athletes = RawCountUpTo(input.athletes, i)
              /\ output.value[i].events = RawCountUpTo(input.events, i)
        /\ \A i \in 1..(WindowMonths - 1) :
              /\ output.value[i].athletes <= output.value[i + 1].athletes
              /\ output.value[i].events <= output.value[i + 1].events

\* an athlete and an event of the first month of the window, another athlete
\* of a later month: the later entries carry the earlier counts
C17_Witness ==
    /\ GrowthDataFetched
    /\ output.value[1].athletes = 1
    /\ output.value[1].events = 1
    /\ output.value[5].athletes = 2
    /\ output.value[6].athletes = 2
    /\ output.value[6].events = 1

(***************************************************************************)
(* getDaysArray, src/unnamed/part_001 lines 112-119, and the day list of   *)
(* the userGrowth and taskCompletion series, lines 166 and 195.  A Date is *)
(* a calendar day and an instant within it.                                *)
(***************************************************************************)
Instants == [day : 0..MaxDay, tod : 0..(TicksPerDay - 1)]

\* line 114: dt <= end, on Dates
NotAfter(a, b) == a.day < b.day \/ (a.day = b.day /\ a.tod <= b.tod)

\* line 114: dt.setDate(dt.getDate() + 1), the same time on the next day
NextDay(dt) == [dt EXCEPT !.day = @ + 1]

\* lines 114-116: the loop, from dt on
RECURSIVE DaysFrom(_, _)
DaysFrom(dt, end) ==
    IF NotAfter(dt, end) THEN <<dt>> \o DaysFrom(NextDay(dt), end) ELSE <<>>

\* lines 112-119
GetDaysArrayResult(start, end) == DaysFrom(start, end)

\* date-fns subDays: the same time n days earlier
SubDays(date, n) == [date EXCEPT !.day = @ - n]

\* lines 166 and 195: getDaysArray(subDays(new Date(), 29), new Date()), for
\* the Dates the two new Date() calls read, the first one first
SeriesDaysResult(first, second) ==
    GetDaysArrayResult(SubDays(first, WindowDays - 1), second)

\* two Dates, the first not after the second
OrderedInstants == {w \in Instants \X Instants : NotAfter(w[1], w[2])}

DaysInputs ==
    { [fn |-> "getDaysArray", start |-> w[1], end |-> w[2]] :
        w \in OrderedInstants }
        \cup
    { [fn |-> "seriesDays", first |-> w[1], second |-> w[2]] :
        w \in OrderedInstants }

GetDaysArray ==
    /\ input.fn = "getDaysArray"
    /\ ~output.done
    /\ output' = Returned(GetDaysArrayResult(input.start, input.end))
    /\ UNCHANGED input
    /\ UNCHANGED <<dashVars, fetchVars, subVars, syncVars, seedVars>>

SeriesDays ==
    /\ input.fn = "seriesDays"
    /\ ~output.done
    /\ output' = Returned(SeriesDaysResult(input.first, input.second))
    /\ UNCHANGED input
    /\ UNCHANGED <<dashVars, fetchVars, subVars, syncVars, seedVars>>

\* the list holds the calendar days from day a to day b, each once, ascending
ExactlyTheDays(days, a, b) ==
    /\ Len(days) = b - a + 1
    /\ \A i \in DOMAIN days : days[i].day = a + i - 1

\* C16: for every rangeStart <= rangeEnd with arbitrary times of day, the day
\* list built by getDaysArray, and so the userGrowth and taskCompletion
\* series, contains exactly one entry for each calendar day from rangeStart's
\* day to rangeEnd's day inclusive, in ascending order with no day skipped or
\* repeated (a day with no matching documents appears with the 0 its count
\* queries return).
C16_OneEntryPerCalendarDay ==
    /\ (input.fn = "getDaysArray" /\ output.done) =>
          ExactlyTheDays(output.value, input.start.day, input.end.day)
    /\ (input.fn = "seriesDays" /\ output.done) =>
          ExactlyTheDays(output.value, input.first.day - (WindowDays - 1),
                         input.second.day)

(***************************************************************************)
(* fetchData of getProgramPerformanceMetrics, src/unnamed/part_001 lines   *)
(* 411-469.  A program document is its id; an enrollment or completion     *)
(* document is the id of the document its collection hangs under, "" when  *)
(* there is none (doc.ref.parent.parent is null).                          *)
(***************************************************************************)
\* lines 414-417 and 421: the program documents as the store lists them,
\* creation time descending
ProgramSnapshots == {<<>>, <<"A">>, <<"B">>, <<"A", "B">>, <<"B", "A">>}

\* line 431 and 438: doc.ref.parent.parent?.id
ParentIds == {"A", "B", ""}

NoPrograms == [id \in {} |-> 0]

\* (mutant) the count kept for a program is not read back
CountParentOnce(byProgram, programId) ==
    IF programId = "" THEN byProgram
    ELSE [id \in DOMAIN byProgram \cup {programId} |->
            IF id = programId THEN 1 ELSE byProgram[id]]

\* lines 432-434 and 439-441: one document counted under its parent's id
CountParent(byProgram, programId) ==
    IF programId = "" THEN byProgram
    ELSE [id \in DOMAIN byProgram \cup {programId} |->
            IF id = programId
            THEN (IF id \in DOMAIN byProgram THEN byProgram[id] ELSE 0) + 1
            ELSE byProgram[id]]

\* lines 430-435 and 437-442: snapshot.forEach
RECURSIVE CountByProgram(_, _)
CountByProgram(byProgram, docs) ==
    IF docs = <<>> THEN byProgram
    ELSE CountByProgram(CountParent(byProgram, Head(docs)), Tail(docs))

\* lines 447-448: byProgram.get(doc.id) || 0
GetOrZero(byProgram, id) == IF id \in DOMAIN byProgram THEN byProgram[id] ELSE 0

\* lines 445-462: the record of one program
ProgramRecord(id, enrollmentsByProgram, completionsByProgram) ==
    LET enrollments == GetOrZero(enrollmentsByProgram, id)
        completions == GetOrZero(completionsByProgram, id)
    IN  [id |-> id, enrollments |-> enrollments, completions |-> completions,
         completionRate |-> ProgramCompletionRate(completions, enrollments),
         rating |-> 0]

\* the whole function; when one of the three getDocs calls fails the catch
\* block throws the generic error
ProgramPerformanceResult(programs, enrollments, completions, fails) ==
    IF fails THEN [thrown |-> GenericMessage("programs")]
    ELSE LET enrollmentsByProgram == CountByProgram(NoPrograms, enrollments)
             completionsByProgram == CountByProgram(NoPrograms, completions)
         IN  [i \in DOMAIN programs |->
                ProgramRecord(programs[i], enrollmentsByProgram,
                              completionsByProgram)]

ProgramInputs ==
    { [fn |-> "getProgramPerformanceMetrics", programs |-> p, enrollments |-> e,
       completions |-> c, fails |-> b] :
        p \in ProgramSnapshots,
        e \in SeqsUpTo(ParentIds, MaxEnrollments),
        c \in SeqsUpTo(ParentIds, MaxCompletions),
        b \in BOOLEAN }

GetProgramPerformanceMetrics ==
    /\ input.fn = "getProgramPerformanceMetrics"
    /\ ~output.done
    /\ output' = Returned(ProgramPerformanceResult(input.programs,
                              input.enrollments, input.completions, input.fails))
    /\ UNCHANGED input
    /\ UNCHANGED <<dashVars, fetchVars, subVars, syncVars, seedVars>>

ProgramsFetched ==
    input.fn = "getProgramPerformanceMetrics" /\ output.done /\ ~input.fails

\* the documents of the list whose parent is the program id
ChildrenOf(docs, id) == Cardinality({k \in DOMAIN docs : docs[k] = id})

\* C18: getProgramPerformanceMetrics returns exactly one record per program
\* document, in the order the store returned them; each record's enrollments
\* and completions equal the number of enrollment and completion documents
\* whose parent program id is that program's id (0 when there are none),
\* documents without a resolvable parent or with a parent that is no listed
\* program count for nobody, and completionRate is
\* round(100 * completions / enrollments) (0 when there is no enrollment).
C18_OneRecordPerProgram ==
    ProgramsFetched =>
        /\ Len(output.value) = Len(input.programs)
        /\ \A i \in DOMAIN input.programs :
              LET r == output.value[i]
                  e == ChildrenOf(input.enrollments, input.programs[i])
                  c == ChildrenOf(input.completions, input.programs[i])
              IN  /\ r.id = input.programs[i]
                  /\ r.enrollments = e
                  /\ r.completions = c
                  /\ r.completionRate =
                        IF e > 0 THEN (200 * c + e) \div (2 * e) ELSE 0

\* programs A and B, enrollments under A, A and B, one completion under A:
\* A has 2 enrollments, 1 completion, rate 50; B has 1, 0 and rate 0
C18_Witness ==
    /\ ProgramsFetched
    /\ input.programs = <<"A", "B">>
    /\ input.enrollments = <<"A", "A", "B">>
    /\ input.completions = <<"A">>
    /\ output.value =
          << [id |-> "A", enrollments |-> 2, completions |-> 1,
              completionRate |-> 50, rating |-> 0],
             [id |-> "B", enrollments |-> 1, completions |-> 0,
              completionRate |-> 0, rating |-> 0] >>

\* an enrollment under a program that is not listed and one under no
\* document at all are counted for no program
C18_UnlistedParentReached ==
    /\ ProgramsFetched
    /\ input.programs = <<"A">>
    /\ input.enrollments = <<"B", "", "A">>
    /\ output.value[1].enrollments = 1

(***************************************************************************)
(* The userGrowth series of getAnalyticsData (lines 165-192).              *)
(***************************************************************************)
\* a moment within a calendar day, as a Timestamp tells moments apart: 0 is
\* 00:00:00.000, 1 a moment later in the day, 2 is 23:59:59.999, and 3 a
\* moment within the last millisecond of the day, after 23:59:59.999
Moments == 0..3

\* the createdAt of a user
CreatedMoments == [day : (0 - GrowthDays)..MaxDay, at : Moments]

\* lines 168-169: setHours(0, 0, 0, 0)
StartOfDay(date) == [day |-> date.day, at |-> 0]

\* lines 170-171: setHours(23, 59, 59, 999)
EndOfDay(date) == [day |-> date.day, at |-> 2]

\* the order of Timestamps
AtOrBefore(a, b) == a.day < b.day \/ (a.day = b.day /\ a.at <= b.at)

\* lines 174-177: where('createdAt', '<=', endOfDay)
TotalUsersCount(users, date) ==
    Cardinality({u \in users : AtOrBefore(u, EndOfDay(date))})

\* lines 178-182: where('createdAt', '>=', startOfDay) and
\* where('createdAt', '<=', endOfDay)
NewUsersCount(users, date) ==
    Cardinality({u \in users : /\ AtOrBefore(StartOfDay(date), u)
                               /\ AtOrBefore(u, EndOfDay(date))})

\* lines 166-192, for the Date that new Date() reads and the users collection
UserGrowthResult(today, users) ==
    LET days == GetDaysArrayResult(SubDays(today, GrowthDays - 1), today)
    IN  [i \in DOMAIN days |->
            [date |-> days[i].day,
             totalUsers |-> TotalUsersCount(users, days[i]),
             newUsers |-> NewUsersCount(users, days[i])]]

UserGrowthInputs ==
    { [fn |-> "userGrowth", today |-> d, users |-> u] :
        d \in Instants, u \in SubsetsUpTo(CreatedMoments, MaxGrowthUsers) }

UserGrowth ==
    /\ input.fn = "userGrowth"
    /\ ~output.done
    /\ output' = Returned(UserGrowthResult(input.today, input.users))
    /\ UNCHANGED input
    /\ UNCHANGED <<dashVars, fetchVars, subVars, syncVars, seedVars>>

UserGrowthComputed == input.fn = "userGrowth" /\ output.done

RECURSIVE NewUsersUpTo(_, _)
NewUsersUpTo(series, i) ==
    IF i = 0 THEN 0 ELSE NewUsersUpTo(series, i - 1) + series[i].newUsers

\* the users created on one of the days of the series
CreatedInWindow ==
    {u \in input.users :
        \E i \in DOMAIN output.value : u.day = output.value[i].date}

\* C30: in the userGrowth series, every user whose creation time lies inside
\* the 30-day window is counted in newUsers of exactly one day, so that for
\* each pair of consecutive days totalUsers(day) = totalUsers(previous day) +
\* newUsers(day) and totalUsers never decreases along the series, when the
\* user collection does not change during the recompute.
C30_UserGrowthAddsUp ==
    UserGrowthComputed =>
        /\ NewUsersUpTo(output.value, Len(output.value))
              = Cardinality(CreatedInWindow)
        /\ \A i \in DOMAIN output.value :
              i > 1 =>
                  /\ output.value[i].totalUsers
                        = output.value[i - 1].totalUsers + output.value[i].newUsers
                  /\ output.value[i].totalUsers >= output.value[i - 1].totalUsers

(***************************************************************************)
(* fetchRecentActivity (dashboard service, lines 200-342).                 *)
(***************************************************************************)
\* lines 212-261: the collections read, in the order of the Promise.all
ActivityCollections ==
    << "users", "programs", "events", "athletes", "trainingSessions",
       "contactSubmissions" >>

\* lines 270, 282, 293, 304, 315, 326: the activity type of each collection
ActivityTypes ==
    << "user_registered", "program_created", "event_created", "athlete_added",
       "training_completed", "contact_received" >>

ActivityKinds == DOMAIN ActivityCollections

\* limit(3)
RecentLimit == 3

\* a collection with MaxActivityDocs documents, not stored in the order of
\* their dates; the dates of different collections interleave and coincide
ManyDocs(i) ==
    [j \in 1..MaxActivityDocs |->
        [id |-> j, isTimestamp |-> TRUE, at |-> ((i + 3 * j) % MaxStamp) + 1]]

\* a collection of two documents, the first with a date field that holds a
\* text instead of a Timestamp
TwoDocs(i) ==
    << [id |-> 1, isTimestamp |-> FALSE, at |-> 0],
       [id |-> 2, isTimestamp |-> TRUE, at |-> (i % MaxStamp) + 1] >>

Shapes == {"none", "two", "many"}

CollectionOf(shape, i) ==
    CASE shape = "none" -> <<>>
      [] shape = "two" -> TwoDocs(i)
      [] shape = "many" -> ManyDocs(i)

\* the moment of the call; documents may be dated after it (a startDate)
TimeOfCall == MaxStamp - 1

\* the place of a document in the order of orderBy(field): Timestamps by
\* date, and every text after every Timestamp
OrderKey(doc) == IF doc.isTimestamp THEN doc.at ELSE MaxStamp + 1

\* orderBy(field, "desc"): x is listed before e (equal values by document
\* name, descending as well)
ListedBefore(x, e) ==
    \/ OrderKey(x) > OrderKey(e)
    \/ OrderKey(x) = OrderKey(e) /\ x.id > e.id

InsertDoc(sorted, e) ==
    LET behind == {i \in DOMAIN sorted : ~ListedBefore(sorted[i], e)}
        p == IF behind = {} THEN Len(sorted) + 1
             ELSE CHOOSE i \in behind : \A j \in behind : i <= j
    IN  SubSeq(sorted, 1, p - 1) \o <<e>> \o SubSeq(sorted, p, Len(sorted))

RECURSIVE OrderByDesc(_, _)
OrderByDesc(sorted, docs) ==
    IF docs = <<>> THEN sorted
    ELSE OrderByDesc(InsertDoc(sorted, Head(docs)), Tail(docs))

\* query(collection, orderBy(field, "desc"), limit(3))
RecentDocs(docs) == Slice(OrderByDesc(<<>>, docs), RecentLimit)

\* (mutant) getDocs without its .catch: the rejection reaches Promise.all
ReadOrReject(docs, failed) ==
    IF failed THEN [ok |-> FALSE, docs |-> <<>>]
    ELSE [ok |-> TRUE, docs |-> RecentDocs(docs)]

\* lines 213-261: getDocs(...).catch(() => ({ docs: [] }))
ReadOrEmpty(docs, failed) ==
    IF failed THEN [ok |-> TRUE, docs |-> <<>>]
    ELSE [ok |-> TRUE, docs |-> RecentDocs(docs)]

\* lines 272, 284, 295, 306, 317, 328:
\* data.field?.toDate?.()?.toISOString() || new Date().toISOString()
ActivityTimestamp(doc) == IF doc.isTimestamp THEN doc.at ELSE TimeOfCall

\* lines 266-330: the activities pushed for the documents of collection i
ActivitiesOf(i, docs) ==
    [j \in DOMAIN docs |->
        [type |-> ActivityTypes[i], id |-> docs[j].id,
         timestamp |-> ActivityTimestamp(docs[j])]]

RECURSIVE PushActivities(_, _, _)
PushActivities(activities, reads, i) ==
    IF i > Len(reads) THEN activities
    ELSE PushActivities(activities \o ActivitiesOf(i, reads[i].docs), reads, i + 1)

\* lines 334-336: a stable sort; x, listed before e, stays in front of it
\* unless e is newer
NotOlder(x, e) == x.timestamp >= e.timestamp

InsertActivity(sorted, e) ==
    LET behind == {i \in DOMAIN sorted : ~NotOlder(sorted[i], e)}
        p == IF behind = {} THEN Len(sorted) + 1
             ELSE CHOOSE i \in behind : \A j \in behind : i <= j
    IN  SubSeq(sorted, 1, p - 1) \o <<e>> \o SubSeq(sorted, p, Len(sorted))

RECURSIVE SortActivities(_, _)
SortActivities(sorted, activities) ==
    IF activities = <<>> THEN sorted
    ELSE SortActivities(InsertActivity(sorted, Head(activities)), Tail(activities))

\* the whole function; fails is the collection whose read fails, 0 for none.
\* A rejection inside the try block ends in the catch of lines 338-341.
FetchRecentActivityResult(limitCount, docs, fails) ==
    LET reads == [i \in ActivityKinds |-> ReadOrEmpty(docs[i], fails = i)]
    IN  IF \E i \in ActivityKinds : ~reads[i].ok THEN <<>>
        ELSE Slice(SortActivities(<<>>, PushActivities(<<>>, reads, 1)),
                   limitCount)

\* the limits asked for: none, fewer than one collection gives, the default
LimitCounts == {0, 2, 10}

ActivityInputs ==
    { [fn |-> "fetchRecentActivity", limitCount |-> l,
       docs |-> [i \in ActivityKinds |-> CollectionOf(s[i], i)], fails |-> f] :
        l \in LimitCounts,
        s \in [ActivityKinds -> Shapes],
        f \in {0} \cup ActivityKinds }

FetchRecentActivity ==
    /\ input.fn = "fetchRecentActivity"
    /\ ~output.done
    /\ output' = Returned(FetchRecentActivityResult(input.limitCount, input.docs,
                                                    input.fails))
    /\ UNCHANGED input
    /\ UNCHANGED <<dashVars, fetchVars, subVars, syncVars, seedVars>>

ActivityFetched == input.fn = "fetchRecentActivity" /\ output.done

\* the documents of collection i that fewer than three documents of the
\* collection are listed before
Newest(i) ==
    {d \in DOMAIN input.docs[i] :
        Cardinality({e \in DOMAIN input.docs[i] :
                        ListedBefore(input.docs[i][e], input.docs[i][d])}) < 3}

\* the activity of document d of collection i is entry k of the result
IsActivityOf(k, i, d) ==
    /\ output.value[k].type = ActivityTypes[i]
    /\ output.value[k].id = input.docs[i][d].id
    /\ output.value[k].timestamp = ActivityTimestamp(input.docs[i][d])

\* C28: fetchRecentActivity(limitCount) never rejects and returns at most
\* limitCount activities, with at most 3 of each of the six activity kinds,
\* ordered by timestamp newest first; a failed read of one kind removes only
\* that kind's activities from the result: every entry is the activity of one
\* of the three newest documents of a collection that was read, and such an
\* activity is missing only when limitCount activities that are not older
\* fill the result.
C28_RecentActivityBoundedAndOrdered ==
    ActivityFetched =>
        /\ Len(output.value) <= input.limitCount
        /\ \A i \in ActivityKinds :
              Cardinality({k \in DOMAIN output.value :
                              output.value[k].type = ActivityTypes[i]}) <= 3
        /\ \A k, m \in DOMAIN output.value :
              k < m => output.value[k].timestamp >= output.value[m].timestamp
        /\ \A k \in DOMAIN output.value :
              \E i \in ActivityKinds \ {input.fails} :
                  \E d \in Newest(i) : IsActivityOf(k, i, d)
        /\ \A i \in ActivityKinds \ {input.fails} : \A d \in Newest(i) :
              \/ \E k \in DOMAIN output.value : IsActivityOf(k, i, d)
              \/ /\ Len(output.value) = input.limitCount
                 /\ \A k \in DOMAIN output.value :
                       output.value[k].timestamp
                           >= ActivityTimestamp(input.docs[i][d])

\* the read of events failed while every collection held more than three
\* documents: the ten newest of the fifteen other activities are returned,
\* three of them user registrations
C28_Witness ==
    /\ ActivityFetched
    /\ input.fails = 3
    /\ input.limitCount = 10
    /\ \A i \in ActivityKinds : Len(input.docs[i]) > 3
    /\ Len(output.value) = 10
    /\ Cardinality({k \in DOMAIN output.value :
                       output.value[k].type = "user_registered"}) = 3

(***************************************************************************)
(* The computations, each applied once to an input the store can hold.     *)
(***************************************************************************)
CalcInit ==
    /\ \/ input \in PercentageInputs
       \/ input \in LevelInputs
       \/ input \in RegionalInputs
       \/ input \in GrowthInputs
       \/ input \in DaysInputs
       \/ input \in ProgramInputs
       \/ input \in ActivityInputs
       \/ input \in UserGrowthInputs
    /\ output = NotRun

CalcNext ==
    \/ DerivePercentage
    \/ FetchLevelData
    \/ FetchRegionalData
    \/ FetchGrowthData
    \/ GetDaysArray
    \/ SeriesDays
    \/ GetProgramPerformanceMetrics
    \/ FetchRecentActivity
    \/ UserGrowth

(***************************************************************************)
(* seedSampleData (client/src/utils/seedDashboardData.ts), called by the   *)
(* dashboard's handleSeedData of each browser session.                     *)
(***************************************************************************)
\* the browser sessions that have the dashboard open
Sessions == {"a", "b"}

\* lines 19-23: the collections read, in the order they are read
ReadOrder == <<"users", "programs", "events", "tasks", "blogPosts">>

\* lines 26, 71, 128, 190: the collections filled, in the order they are filled
WriteOrder == <<"programs", "events", "tasks", "blogPosts">>

SeedCollections == {WriteOrder[i] : i \in DOMAIN WriteOrder}

\* lines 28-62, 73-119, 130-181, 192-210: the number of sample documents
SampleSize == [programs |-> 3, events |-> 3, tasks |-> 5, blogPosts |-> 1]

\* the documents of collection c: those that were there before any call, and
\* the sample documents added
Docs(s, c) == s[c].others + s[c].samples

FreshStore == [c \in SeedCollections |-> [others |-> 0, samples |-> 0]]

NoSnapshots == [c \in SeedCollections |-> 0]

IdleSession ==
    [pc |-> "idle", step |-> 0, snapshots |-> NoSnapshots, written |-> 0,
     runs |-> 0, completed |-> FALSE, afterCompleted |-> FALSE]

SeedRest ==
    /\ seedStore = FreshStore
    /\ seeders = [p \in Sessions |-> IdleSession]

\* the collection that may hold a document of its own before the first call
Stocked == {"events"}

SeedInit ==
    /\ seedStore \in [SeedCollections -> [others : {0, 1}, samples : {0}]]
    /\ \A c \in SeedCollections \ Stocked : seedStore[c].others = 0
    /\ seeders = [p \in Sessions |-> IdleSession]

\* Dashboard.tsx lines 83-95 and 245: handleSeedData; the button is disabled
\* while the session's own call runs
SeedStart(p) ==
    /\ seeders[p].pc \in {"idle", "done", "failed"}
    /\ seeders[p].runs < MaxRuns
    /\ seeders' = [seeders EXCEPT ![p] =
           [@ EXCEPT !.pc = "reading", !.step = 1, !.snapshots = NoSnapshots,
                     !.written = 0, !.runs = @ + 1,
                     !.afterCompleted = \E q \in Sessions : seeders[q].completed]]
    /\ UNCHANGED seedStore
    /\ UNCHANGED <<dashVars, fetchVars, subVars, calcVars, syncVars>>

\* (mutant) the guards of lines 26, 71, 128 and 190 left out
EmptyAlways(size) == TRUE

\* snapshot.empty
Empty(size) == size = 0

\* the place in WriteOrder of the first collection from place i on that the
\* call fills, 0 when there is none
NextToFill(snapshots, i) ==
    LET left == {j \in DOMAIN WriteOrder :
                    j >= i /\ Empty(snapshots[WriteOrder[j]])}
    IN  IF left = {} THEN 0 ELSE CHOOSE j \in left : \A k \in left : j <= k

\* the call moves on to the loop of the next collection it fills, or returns
\* and its snapshots are gone
Proceed(session, i) ==
    LET n == NextToFill(session.snapshots, i)
    IN  IF n = 0
        THEN [session EXCEPT !.pc = "done", !.step = 0, !.written = 0,
                             !.snapshots = NoSnapshots, !.completed = TRUE]
        ELSE [session EXCEPT !.pc = "writing", !.step = n, !.written = 0]

\* lines 19-23: one await getDocs(collection(db, c)) resolves
SeedReads(p) ==
    /\ seeders[p].pc = "reading"
    /\ LET c == ReadOrder[seeders[p].step]
           read == IF c \in SeedCollections
                   THEN [seeders[p] EXCEPT !.snapshots[c] = Docs(seedStore, c)]
                   ELSE seeders[p]
       IN  seeders' = [seeders EXCEPT ![p] =
               IF seeders[p].step < Len(ReadOrder)
               THEN [read EXCEPT !.step = @ + 1]
               ELSE Proceed(read, 1)]
    /\ UNCHANGED seedStore
    /\ UNCHANGED <<dashVars, fetchVars, subVars, calcVars, syncVars>>

\* lines 64-66, 121-123, 183-185, 212-214: one await addDoc resolves
SeedWrites(p) ==
    /\ seeders[p].pc = "writing"
    /\ LET c == WriteOrder[seeders[p].step]
       IN  /\ seedStore' = [seedStore EXCEPT ![c].samples = @ + 1]
           /\ seeders' = [seeders EXCEPT ![p] =
                  IF seeders[p].written + 1 < SampleSize[c]
                  THEN [@ EXCEPT !.written = @ + 1]
                  ELSE Proceed(@, seeders[p].step + 1)]
    /\ UNCHANGED <<dashVars, fetchVars, subVars, calcVars, syncVars>>

\* lines 225-228: a getDocs or an addDoc rejects; the catch block logs and
\* rethrows, and what was written stays
SeedFails(p) ==
    /\ seeders[p].pc \in {"reading", "writing"}
    /\ seeders' = [seeders EXCEPT ![p] =
           [@ EXCEPT !.pc = "failed", !.step = 0, !.written = 0,
                     !.snapshots = NoSnapshots]]
    /\ UNCHANGED seedStore
    /\ UNCHANGED <<dashVars, fetchVars, subVars, calcVars, syncVars>>

SeedNext ==
    \/ \E p \in Sessions : SeedStart(p)
    \/ \E p \in Sessions : SeedReads(p)
    \/ \E p \in Sessions : SeedWrites(p)
    \/ \E p \in Sessions : SeedFails(p)

(***************************************************************************)
(* The specifications: one part of the program runs, the others rest.      *)
(***************************************************************************)
vars == <<store, dashPc, failing, dash, call, settled, logged,
          now, subs, subscriptions, event, input, output, changes,
          seedStore, seeders>>

DashRest ==
    /\ store = EmptyStore
    /\ dashPc = "idle"
    /\ failing = {}
    /\ dash = DashIdle

\* fetchDashboardStats, for every store and every set of failing calls
InitDash == DashInit /\ FetchInit /\ SubInit /\ CalcRest /\ SeedRest

SpecDash == InitDash /\ [][DashNext]_vars

\* the computations, for every input
InitCalc == DashRest /\ FetchInit /\ SubInit /\ CalcInit /\ SeedRest

SpecCalc == InitCalc /\ [][CalcNext]_vars

\* everything at rest: no call made, no subscription
Init == DashRest /\ FetchInit /\ SubInit /\ CalcRest /\ SeedRest

\* the one-shot mode of the three metric families
SpecFetch == Init /\ [][FetchNext]_vars

\* the subscription mode of the three metric families
SpecSub == Init /\ [][SubNext]_vars

\* the same with fewer subscriptions, for the recomputes
SpecPush == Init /\ [][PushNext]_vars

\* the store answers: a recompute whose queries succeed does resolve
SpecPushLive ==
    /\ SpecPush
    /\ \A n \in 1..MaxListeners : WF_vars(RecomputeResolves(n, "initial"))

InitSeed == DashRest /\ FetchInit /\ SubInit /\ CalcRest /\ SeedInit

\* the browser sessions call seedSampleData
SpecSeed == InitSeed /\ [][SeedNext]_vars

\* one subscription while the collections change
SpecSync == Init /\ [][SyncNext]_vars

\* the store is available: it sends every attached listener its first
\* snapshot, and it answers every recompute
SpecSyncLive ==
    /\ Init
    /\ [][SyncAvailableNext]_vars
    /\ \A n \in 1..MaxListeners : WF_vars(FirstSnapshot(n))
    /\ \A n \in 1..MaxListeners, g \in Triggers : WF_vars(RecomputeResolves(n, g))

(***************************************************************************)
(* Claims about the subscription mode.                                     *)
(***************************************************************************)
\* the registry holds the unsubscribe function of listener m under m's own id
Registered(m) ==
    /\ subs[m].id \in DOMAIN subscriptions
    /\ subscriptions[subs[m].id] = m

\* two subscribe calls on the same family have different identifiers
DistinctIds ==
    \A m, n \in DOMAIN subs :
        (m # n /\ subs[m].family = subs[n].family) => subs[m].id # subs[n].id

\* C4: any two subscribe calls on the same metric family, also two within the
\* same clock tick, get distinct registry identifiers, and invoking the
\* Unsubscribe of one detaches only its own listener: the other stays
\* registered and attached (it keeps receiving pushes).
C4_IndependentSubscriptions ==
    [][ /\ DistinctIds'
        /\ \A n \in DOMAIN subs :
              Unsubscribe(n) =>
                  \A m \in DOMAIN subs \ {n} :
                      /\ subs'[m].attached = subs[m].attached
                      /\ Registered(m) => Registered(m)' ]_vars

\* C5: invoking the Unsubscribe handle of a subscription detaches that
\* subscription's listener exactly once and removes its registry entry;
\* invoking the same handle again does nothing.
C5_UnsubscribeIdempotent ==
    [][ \A n \in DOMAIN subs :
          Unsubscribe(n) =>
              IF subs[n].invoked
              THEN /\ subscriptions' = subscriptions
                   /\ \A m \in DOMAIN subs :
                         /\ subs'[m].attached = subs[m].attached
                         /\ subs'[m].detachCalls = subs[m].detachCalls
              ELSE /\ ~subs'[n].attached
                   /\ subs'[n].detachCalls = 1
                   /\ subs[n].id \notin DOMAIN subscriptions' ]_vars

\* C6: after the beforeunload hook ran, no listener attached by an earlier
\* subscribe call is still attached and the registry is empty, whatever
\* subscribe and Unsubscribe calls came before.
C6_TeardownReleasesAll ==
    [][ BeforeUnload =>
          /\ subscriptions' = NoSubscriptions
          /\ \A n \in DOMAIN subs' : ~subs'[n].attached ]_vars

\* C7: after a subscribe call, its onUpdate is eventually invoked with a
\* fresh snapshot, provided the queries of the initial recompute succeed
\* (else the failure is logged), even if the store never sends a change
\* notification.
C7_InitialSnapshotDelivered ==
    \A n \in 1..MaxListeners :
        (n \in DOMAIN subs) ~>
            (n \in DOMAIN subs /\ subs[n].initial \in {"delivered", "failed"})

\* the initial recompute delivered, and no recompute started by a change
\* notification is or was in flight and failed
C7_Witness ==
    /\ 1 \in DOMAIN subs
    /\ subs[1].initial = "delivered"
    /\ event = [kind |-> "onUpdate", sub |-> 1, trigger |-> "initial"]
    /\ subs[1].pushes = 0
    /\ ~subs[1].pushFailed

\* C8: when a recompute started by a change notification fails, onUpdate is
\* not invoked for it, nothing is thrown (the error is logged), the
\* subscription stays in the registry with its listener attached, and a later
\* notification whose recompute succeeds still invokes onUpdate.
C8_PushFailureKeepsListener ==
    [][ \A n \in DOMAIN subs :
          /\ RecomputeRejects(n, "push") =>
                /\ event' = [kind |-> "logged", sub |-> n, trigger |-> "push"]
                /\ subscriptions' = subscriptions
                /\ \A m \in DOMAIN subs : subs'[m].attached = subs[m].attached
          /\ (subs[n].pushFailed /\ RecomputeResolves(n, "push")) =>
                event' = [kind |-> "onUpdate", sub |-> n, trigger |-> "push"] ]_vars

\* a recompute of an attached, registered listener failed, and a later one
\* has just invoked onUpdate
C8_Witness ==
    /\ 1 \in DOMAIN subs
    /\ subs[1].pushFailed
    /\ subs[1].attached
    /\ Registered(1)
    /\ event = [kind |-> "onUpdate", sub |-> 1, trigger |-> "push"]


\* C21: after a subscription's Unsubscribe has been invoked, no change
\* notification starts a new recompute for that subscription, but a recompute
\* (or the initial fetch) that was already in flight at that moment still
\* completes and invokes onUpdate after the Unsubscribe.
C21_UnsubscribeStopsOnlyNewRecomputes ==
    [][ \A n \in DOMAIN subs :
          subs[n].invoked =>
              /\ ~StoreNotifies(n)
              /\ \A g \in Triggers :
                    RecomputeResolves(n, g) =>
                        event' = [kind |-> "onUpdate", sub |-> n, trigger |-> g] ]_vars

C23_ChangeLeadsToUpdate ==
    \A n \in 1..MaxListeners, v \in 1..MaxChanges :
        (n \in DOMAIN subs /\ subs[n].attached /\ changes[subs[n].family] = v)
            ~> (n \in DOMAIN subs /\ (~subs[n].attached \/ subs[n].shown >= v))

(***************************************************************************)
(* Claims about seedSampleData.                                            *)
(***************************************************************************)
\* C27: seedSampleData adds sample documents to programs, events, tasks or
\* blogPosts only if that collection was empty when it was checked at the
\* start of the call; calling seedSampleData again after a run that completed
\* adds no document to any collection.
C27_SeedsOnlyEmptyCollections ==
    [][ \A p \in Sessions :
          SeedWrites(p) =>
              /\ seeders[p].snapshots[WriteOrder[seeders[p].step]] = 0
              /\ ~seeders[p].afterCompleted ]_vars

\* session a filled programs, which was empty, and left events, which held a
\* document, alone; session b called after that run had completed and
\* returned with nothing added
C27_Witness ==
    /\ seeders["a"].pc = "done"
    /\ seeders["b"].pc = "done"
    /\ seeders["b"].afterCompleted
    /\ seedStore["programs"] = [others |-> 0, samples |-> 3]
    /\ seedStore["events"] = [others |-> 1, samples |-> 0]
    /\ seedStore["tasks"].samples = 5

\* no call is running and every session has made its calls
SeedingOver ==
    \A p \in Sessions :
        seeders[p].pc \in {"done", "failed"} /\ seeders[p].runs = MaxRuns

\* C29: for any interleaving of two overlapping seedSampleData calls, and for
\* a call interrupted by a failed write, each of programs, events, tasks and
\* blogPosts ends with either none or exactly one complete copy of its sample
\* set: never duplicates and never a partial set that later calls leave
\* incomplete.
C29_NoneOrOneCompleteCopy ==
    SeedingOver =>
        \A c \in SeedCollections : seedStore[c].samples \in {0, SampleSize[c]}

====
